---- MODULE Spec2Model ----
(***************************************************************************)
(* The leveldb block store of bytom (database/leveldb/store.go): the key   *)
(* encoding, the two write transactions SaveBlock and SaveChainStatus,     *)
(* the direct substrate reads and the reads that go through the block      *)
(* cache, over a key-value substrate with atomic batch commit.             *)
(*                                                                         *)
(* One writer (the caller serialises SaveBlock and SaveChainStatus) runs   *)
(* beside NumReaders reader goroutines; the process may die at any step    *)
(* (Crash), which keeps the substrate and loses everything in memory.      *)
(***************************************************************************)
EXTENDS Integers, Sequences, FiniteSets, TLC

\* ------------------------------------------------------------- bounds
NumBlocks == 2
NumOutputs == 1
NumReaders == 2
MaxCachedBlocks == 1

\* The length of hash.Bytes(): every hash has the same length (32 in the
\* program; the bytes beyond the first few add nothing to a key).
HashLen == 4

\* ------------------------------------------------------------- values
\* A Go pointer or byte slice is either nil or holds a value.
Nil == <<"nil">>
Ptr(v) == <<"ptr", v>>
Deref(p) == p[2]
NoErr == "nil"
ErrNotFound == "not found"
ErrUnmarshal == "unmarshal"

BlockIds == 1..NumBlocks
Heights == 1..2
HeightOf(i) == ((i - 1) % 2) + 1

\* types.BlockHeader and types.Block. The header commits to the transactions,
\* so a block is determined by its header.
Header(i) == [height |-> HeightOf(i), nonce |-> i]
Block(i) == [header |-> Header(i), txs |-> i]
Blocks == {Block(i) : i \in BlockIds}
\* &types.Block{} and &types.BlockHeader{}: the zero values a decoder starts from.
ZeroHeader == [height |-> 0, nonce |-> 0]
ZeroBlock == [header |-> ZeroHeader, txs |-> 0]

\* The transaction status and the seed a caller passes with a block: the
\* status of a block of one transaction, which passed or failed, and one of two
\* seeds.
SaveArgs == {[ts |-> <<"ok">>, seed |-> "seedA"], [ts |-> <<"fail">>, seed |-> "seedB"]}
Outputs == 1..NumOutputs

\* block.Hash(): the hash of the header, as 32 bytes.
HeaderHash(hd) == [j \in 1..HashLen |-> hd.nonce]
Hash(b) == HeaderHash(b.header)
Hashes == {Hash(b) : b \in Blocks}
BlockOfHash(h) == CHOOSE b \in Blocks : Hash(b) = h

\* ---------------------------------------------------------------- keys
\* The key prefixes, as bytes.
blockStoreKey == <<98, 108, 111, 99, 107, 83, 116, 111, 114, 101>>
blockPrefix == <<66, 58>>
blockHeaderPrefix == <<66, 72, 58>>
blockSeedPrefix == <<66, 83, 58>>
txStatusPrefix == <<66, 84, 83, 58>>
mainchainPrefix == <<77, 67, 58>>
utxoPrefix == <<85, 84, 58>>

calcBlockKey(hash) == blockPrefix \o hash
calcBlockHeaderKey(hash) == blockHeaderPrefix \o hash
calcSeedKey(hash) == blockSeedPrefix \o hash

\* The status key built with the prefix of the seed key.
calcTxStatusKey_SeedPrefix(hash) == blockSeedPrefix \o hash

calcTxStatusKey(hash) == txStatusPrefix \o hash
calcMainchainKey(hash) == mainchainPrefix \o hash
calcUtxoKey(o) == utxoPrefix \o [j \in 1..HashLen |-> o]

\* -------------------------------------------------------------- codecs
\* Encoded bytes are a pair <<format, content>>; a decoder accepts only its own
\* format. Garbage is a byte string no decoder accepts.
Garbage == <<"garbage", 0>>

BlockMarshalText(b) == <<"block", b>>
BlockUnmarshalText(bytes) ==
    IF bytes[1] = "block" THEN [val |-> bytes[2], err |-> NoErr]
    ELSE [val |-> ZeroBlock, err |-> ErrUnmarshal]

HeaderMarshalText(hd) == <<"header", hd>>
HeaderUnmarshalText(bytes) ==
    IF bytes[1] = "header" THEN [val |-> bytes[2], err |-> NoErr]
    ELSE [val |-> ZeroHeader, err |-> ErrUnmarshal]

MarshalTxStatus(ts) == <<"txstatus", ts>>
UnmarshalTxStatus(bytes) ==
    IF bytes[1] = "txstatus" THEN [val |-> bytes[2], err |-> NoErr]
    ELSE [val |-> <<>>, err |-> ErrUnmarshal]

MarshalSeed(seed) == <<"seed", seed>>
UnmarshalSeed(bytes) ==
    IF bytes[1] = "seed" THEN [val |-> bytes[2], err |-> NoErr]
    ELSE [val |-> "", err |-> ErrUnmarshal]

\* database.BlockStoreStateJSON{Height, Hash} through encoding/json; NoHash is
\* the nil *bc.Hash.
NoHash == <<>>
StoreState(height, hash) == [Height |-> height, Hash |-> hash]
JsonMarshal(bsj) == <<"json", bsj>>
JsonUnmarshal(bytes) ==
    IF bytes[1] = "json" THEN [val |-> bytes[2], err |-> NoErr]
    ELSE [val |-> StoreState(0, NoHash), err |-> ErrUnmarshal]

MarshalMainchain(m) == <<"mainchain", m>>
UnmarshalMainchain(bytes) ==
    IF bytes[1] = "mainchain" THEN [val |-> bytes[2], err |-> NoErr]
    ELSE [val |-> <<>>, err |-> ErrUnmarshal]

MarshalUtxo(e) == <<"utxo", e>>

\* ----------------------------------------------------------- substrate
\* A dbm.DB is a finite map from keys to bytes; a dbm.Batch is the sequence of
\* the writes staged into it.
EmptyDB == [k \in {} |-> Garbage]
DbHas(d, k) == k \in DOMAIN d
DbGet(d, k) == IF k \in DOMAIN d THEN d[k] ELSE Nil
DbSet(d, k, v) == [x \in (DOMAIN d) \cup {k} |-> IF x = k THEN v ELSE d[x]]
DbDelete(d, k) == [x \in (DOMAIN d) \ {k} |-> d[x]]

BatchSet(k, v) == [op |-> "set", key |-> k, val |-> v]
BatchDelete(k) == [op |-> "delete", key |-> k, val |-> Nil]
ApplyOp(d, w) == IF w.op = "set" THEN DbSet(d, w.key, w.val) ELSE DbDelete(d, w.key)

RECURSIVE ApplyBatch(_, _)
ApplyBatch(d, batch) ==
    IF batch = <<>> THEN d
    ELSE ApplyBatch(ApplyOp(d, Head(batch)), Tail(batch))

\* --------------------------------------------------------------- state
VARIABLES
    db,       \* the substrate: key -> bytes
    cache,    \* the block cache: the cached blocks, most recently used first
    wpc,      \* where the writer is in a call that is followed step by step
    wcall,    \* the arguments of that call
    wbatch,   \* the writes staged into its batch
    pre,      \* the substrate as that call found it (history)
    saved,    \* per hash, the arguments of the last SaveBlock that returned nil (history)
    rpc,      \* where each reader is in its lookup
    rcall,    \* the hash each reader looks up, and whether it was saved by then (history)
    rres,     \* what the lookup gave each reader
    retry     \* the tip of a returned SaveChainStatus whose pruning is to be run again

vars == <<db, cache, wpc, wcall, wbatch, pre, saved, rpc, rcall, rres, retry>>
writerVars == <<wpc, wcall, wbatch, pre>>
readerVars == <<rpc, rcall, rres>>

Readers == 1..NumReaders

\* A state.UtxoViewpoint: for each output, whether the view creates it, spends
\* it or does not mention it.
Views == [Outputs -> {"none", "new", "spent"}]
EmptyView == [o \in Outputs |-> "none"]

\* The height-to-hash maps a caller passes with the tip b: the chain that ends
\* in b, and that chain without its last height (a map that stops short of b).
FirstAt(h) == CHOOSE i \in BlockIds : HeightOf(i) = h /\ \A j \in BlockIds : HeightOf(j) = h => i <= j
ChainTo(b) == [h \in 1..b.header.height |->
                  IF h = b.header.height THEN Hash(b) ELSE Hash(Block(FirstAt(h)))]
ChainBelow(b) == [h \in 1..(b.header.height - 1) |-> ChainTo(b)[h]]
MainchainsFor(b) == {ChainTo(b), ChainBelow(b)}

NoCall == [block |-> ZeroBlock, ts |-> <<>>, seed |-> "", view |-> EmptyView, m |-> <<>>]
NoLookup == [hash |-> NoHash, afterSave |-> FALSE]
NoResult == [val |-> Nil, err |-> NoErr]
NotSaved == [done |-> FALSE, block |-> ZeroBlock, ts |-> <<>>, seed |-> ""]

\* --------------------------------------------------------------- reads
\* loadBlockStoreStateJSON handing the nil bytes of a missing key to the decoder.
loadBlockStoreStateJSON_DecodesNil(d) ==
    LET bytes == DbGet(d, blockStoreKey) IN
    IF bytes = Nil THEN [val |-> StoreState(0, NoHash), panic |-> TRUE]
    ELSE LET dec == JsonUnmarshal(bytes) IN
         IF dec.err # NoErr THEN [val |-> StoreState(0, NoHash), panic |-> TRUE]
         ELSE [val |-> dec.val, panic |-> FALSE]

\* Lines 26-38: height 0 and no hash when the key is absent; a panic when its
\* bytes do not decode.
loadBlockStoreStateJSON(d) ==
    LET bytes == DbGet(d, blockStoreKey) IN
    IF bytes = Nil THEN [val |-> StoreState(0, NoHash), panic |-> FALSE]
    ELSE LET dec == JsonUnmarshal(bytes) IN
         IF dec.err # NoErr THEN [val |-> StoreState(0, NoHash), panic |-> TRUE]
         ELSE [val |-> dec.val, panic |-> FALSE]

\* GetBlock looking the hash up without the block prefix.
GetBlock_BareHashKey(d, hash) ==
    LET bytez == DbGet(d, hash) IN
    IF bytez = Nil THEN Nil
    ELSE Ptr(BlockUnmarshalText(bytez).val)

\* GetBlock reading the header record instead of the block record.
GetBlock_HeaderKey(d, hash) ==
    LET bytez == DbGet(d, calcBlockHeaderKey(hash)) IN
    IF bytez = Nil THEN Nil
    ELSE Ptr(BlockUnmarshalText(bytez).val)

\* The package function GetBlock: the loader of the cache. The result of
\* block.UnmarshalText is dropped.
GetBlock(d, hash) ==
    LET bytez == DbGet(d, calcBlockKey(hash)) IN
    IF bytez = Nil THEN Nil
    ELSE Ptr(BlockUnmarshalText(bytez).val)

\* The fillFn NewStore hands to newBlockCache.
fillFn(hash) == GetBlock(db, hash)

GetBlockHeader(hash) ==
    LET bytez == DbGet(db, calcBlockHeaderKey(hash)) IN
    IF bytez = Nil THEN [val |-> Nil, err |-> ErrNotFound]
    ELSE LET dec == HeaderUnmarshalText(bytez) IN
         [val |-> Ptr(dec.val), err |-> dec.err]

GetSeed(hash) ==
    LET data == DbGet(db, calcSeedKey(hash)) IN
    IF data = Nil THEN [val |-> Nil, err |-> ErrNotFound]
    ELSE LET dec == UnmarshalSeed(data) IN
         IF dec.err # NoErr THEN [val |-> Nil, err |-> dec.err]
         ELSE [val |-> Ptr(dec.val), err |-> NoErr]

GetTransactionStatus(hash) ==
    LET data == DbGet(db, calcTxStatusKey(hash)) IN
    IF data = Nil THEN [val |-> Nil, err |-> ErrNotFound]
    ELSE LET dec == UnmarshalTxStatus(data) IN
         IF dec.err # NoErr THEN [val |-> Nil, err |-> dec.err]
         ELSE [val |-> Ptr(dec.val), err |-> NoErr]

GetStoreStatus == loadBlockStoreStateJSON(db)

\* getMainchain: the height-to-hash map stored for a tip.
getMainchain(d, hash) ==
    LET data == DbGet(d, calcMainchainKey(hash)) IN
    IF data = Nil THEN [val |-> <<>>, err |-> ErrNotFound]
    ELSE UnmarshalMainchain(data)

GetMainchain(hash) == getMainchain(db, hash)

\* getUtxo: the entry stored for an output.
getUtxo(d, o) ==
    LET data == DbGet(d, calcUtxoKey(o)) IN
    IF data = Nil THEN [val |-> Nil, err |-> ErrNotFound]
    ELSE [val |-> Ptr(data[2]), err |-> NoErr]

GetUtxo(o) == getUtxo(db, o)

\* --------------------------------------------------------- block cache
\* The blockCache: a bounded least-recently-used map from hash to decoded
\* block, and a registry of the loads in flight, one per hash.
CacheHas(c, hash) == \E i \in 1..Len(c) : c[i].hash = hash
CacheGet(c, hash) == (CHOOSE e \in {c[i] : i \in 1..Len(c)} : e.hash = hash).block
CacheWithout(c, hash) == SelectSeq(c, LAMBDA e : e.hash # hash)
CacheTouch(c, hash) ==
    <<[hash |-> hash, block |-> CacheGet(c, hash)]>> \o CacheWithout(c, hash)
CacheAdd(c, hash, b) ==
    LET full == <<[hash |-> hash, block |-> b]>> \o CacheWithout(c, hash) IN
    IF Len(full) > MaxCachedBlocks THEN SubSeq(full, 1, MaxCachedBlocks) ELSE full

InFlight(hash) == {q \in Readers : rpc[q] = "loading" /\ rcall[q].hash = hash}
Waiting(hash) == {q \in Readers : rpc[q] = "waiting" /\ rcall[q].hash = hash}

\* cache.lookup, up to the point where the caller has its block, has joined
\* the load in flight for its hash, or has become the loader.
CacheLookup(r, hash) ==
    /\ rpc[r] = "idle"
    /\ rcall' = [rcall EXCEPT ![r] = [hash |-> hash, afterSave |-> saved[hash].done]]
    /\ IF CacheHas(cache, hash)
       THEN /\ rpc' = [rpc EXCEPT ![r] = "done"]
            /\ rres' = [rres EXCEPT ![r] =
                   [val |-> Ptr(CacheGet(cache, hash)), err |-> NoErr]]
            /\ cache' = CacheTouch(cache, hash)
       ELSE /\ rpc' = [rpc EXCEPT ![r] =
                   IF InFlight(hash) # {} THEN "waiting" ELSE "loading"]
            /\ UNCHANGED <<retry, rres, cache>>
    /\ UNCHANGED <<retry, db, saved, writerVars>>

\* The load of a missing hash: the loader runs fillFn; a block is added to the
\* cache, a nil is reported as not found and not remembered; the result goes to
\* the loader and to every caller waiting for this hash.
CacheFill(r) ==
    /\ rpc[r] = "loading"
    /\ LET hash == rcall[r].hash
           b == fillFn(hash)
           res == IF b = Nil THEN [val |-> Nil, err |-> ErrNotFound]
                  ELSE [val |-> b, err |-> NoErr]
           woken == {r} \cup Waiting(hash)
       IN /\ rpc' = [q \in Readers |-> IF q \in woken THEN "done" ELSE rpc[q]]
          /\ rres' = [q \in Readers |-> IF q \in woken THEN res ELSE rres[q]]
          /\ cache' = IF b = Nil THEN cache ELSE CacheAdd(cache, hash, Deref(b))
    /\ UNCHANGED <<retry, db, saved, rcall, writerVars>>

\* What a lookup of hash gives when it runs alone in the current state.
LookupNow(hash) ==
    IF CacheHas(cache, hash) THEN [val |-> Ptr(CacheGet(cache, hash)), err |-> NoErr]
    ELSE LET b == fillFn(hash) IN
         IF b = Nil THEN [val |-> Nil, err |-> ErrNotFound]
         ELSE [val |-> b, err |-> NoErr]

\* ------------------------------------------------------------- readers
\* Store.GetBlock calling the loader itself, past the cache.
GetBlockCall_PastCache(r, hash) ==
    /\ rpc[r] = "idle"
    /\ rcall' = [rcall EXCEPT ![r] = [hash |-> hash, afterSave |-> saved[hash].done]]
    /\ rpc' = [rpc EXCEPT ![r] = "loading"]
    /\ UNCHANGED <<retry, db, cache, saved, rres, writerVars>>

\* Store.GetBlock: s.cache.lookup(hash).
GetBlockCall(r, hash) == CacheLookup(r, hash)

\* Store.BlockExist: the same lookup; the answer is err == nil && block != nil.
BlockExistCall(r, hash) == CacheLookup(r, hash)
BlockExistResult(res) == res.err = NoErr /\ res.val # Nil

\* The lookup returns to the caller of GetBlock or BlockExist.
LookupReturn(r) ==
    /\ rpc[r] = "done"
    /\ rpc' = [rpc EXCEPT ![r] = "idle"]
    /\ rcall' = [rcall EXCEPT ![r] = NoLookup]
    /\ rres' = [rres EXCEPT ![r] = NoResult]
    /\ UNCHANGED <<retry, db, cache, saved, writerVars>>

\* The reads that go to the substrate directly, as calls of a reader.
ReadOps == {"header", "seed", "txstatus"}
ReadResult(op, hash) ==
    CASE op = "header" -> GetBlockHeader(hash)
      [] op = "seed" -> GetSeed(hash)
      [] OTHER -> GetTransactionStatus(hash)

\* GetBlockHeader answering a missing key with the decoder's error.
DirectRead_AbsentIsDecodeError(r, op, hash) ==
    /\ rpc[r] = "idle"
    /\ rcall' = [rcall EXCEPT ![r] = [hash |-> hash, afterSave |-> saved[hash].done]]
    /\ rres' = [rres EXCEPT ![r] =
           IF op = "header" /\ ~DbHas(db, calcBlockHeaderKey(hash))
           THEN [val |-> Ptr(ZeroHeader), err |-> ErrUnmarshal]
           ELSE ReadResult(op, hash)]
    /\ rpc' = [rpc EXCEPT ![r] = "read"]
    /\ UNCHANGED <<retry, db, cache, saved, writerVars>>

\* Store.GetBlockHeader, Store.GetSeed or Store.GetTransactionStatus: one
\* db.Get and the decoding of what it gave.
DirectRead(r, op, hash) ==
    /\ rpc[r] = "idle"
    /\ rcall' = [rcall EXCEPT ![r] = [hash |-> hash, afterSave |-> saved[hash].done]]
    /\ rres' = [rres EXCEPT ![r] = ReadResult(op, hash)]
    /\ rpc' = [rpc EXCEPT ![r] = "read"]
    /\ UNCHANGED <<retry, db, cache, saved, writerVars>>

\* Store.GetUtxo: getUtxo(s.db, hash) for the output a reader asks for.
GetUtxoCall(r, o) ==
    /\ rpc[r] = "idle"
    /\ rcall' = [rcall EXCEPT ![r] = [hash |-> [j \in 1..HashLen |-> o], afterSave |-> FALSE]]
    /\ rres' = [rres EXCEPT ![r] = GetUtxo(o)]
    /\ rpc' = [rpc EXCEPT ![r] = "read"]
    /\ UNCHANGED <<retry, db, cache, saved, writerVars>>

\* The four keys of a hash, by record kind, as a caller of the key functions
\* gets them for the hash it holds.
Kinds == {"B", "BH", "BS", "BTS"}
KeyOf(kind, hash) ==
    CASE kind = "B" -> calcBlockKey(hash)
      [] kind = "BH" -> calcBlockHeaderKey(hash)
      [] kind = "BS" -> calcSeedKey(hash)
      [] OTHER -> calcTxStatusKey(hash)
PrefixOf(kind) ==
    CASE kind = "B" -> blockPrefix
      [] kind = "BH" -> blockHeaderPrefix
      [] kind = "BS" -> blockSeedPrefix
      [] OTHER -> txStatusPrefix

CalcKeys(r) ==
    /\ rpc[r] = "idle"
    /\ rres' = [rres EXCEPT ![r] =
           [val |-> [kind \in Kinds |-> KeyOf(kind, rcall[r].hash)], err |-> NoErr]]
    /\ rpc' = [rpc EXCEPT ![r] = "keys"]
    /\ UNCHANGED <<retry, db, cache, saved, rcall, writerVars>>

\* The caller of a direct read has its result.
ReadReturn(r) ==
    /\ rpc[r] = "read"
    /\ rpc' = [rpc EXCEPT ![r] = "idle"]
    /\ rcall' = [rcall EXCEPT ![r] = NoLookup]
    /\ rres' = [rres EXCEPT ![r] = NoResult]
    /\ UNCHANGED <<retry, db, cache, saved, writerVars>>

\* ----------------------------------------------------------- SaveBlock
\* SaveBlock leaving the seed out of the batch.
SaveBlockBatch_SeedNotStaged(block, ts, seed) ==
    LET blockHash == Hash(block) IN
    << BatchSet(calcBlockKey(blockHash), BlockMarshalText(block)),
       BatchSet(calcBlockHeaderKey(blockHash), HeaderMarshalText(block.header)),
       BatchSet(calcTxStatusKey(blockHash), MarshalTxStatus(ts)) >>

\* SaveBlock staging the encoded block under the header key.
SaveBlockBatch_HeaderIsBlock(block, ts, seed) ==
    LET blockHash == Hash(block) IN
    << BatchSet(calcBlockKey(blockHash), BlockMarshalText(block)),
       BatchSet(calcBlockHeaderKey(blockHash), BlockMarshalText(block)),
       BatchSet(calcTxStatusKey(blockHash), MarshalTxStatus(ts)),
       BatchSet(calcSeedKey(blockHash), MarshalSeed(seed)) >>

\* SaveBlock moving the checkpoint to the block it saves.
SaveBlockBatch_MovesCheckpoint(block, ts, seed) ==
    LET blockHash == Hash(block) IN
    << BatchSet(calcBlockKey(blockHash), BlockMarshalText(block)),
       BatchSet(calcBlockHeaderKey(blockHash), HeaderMarshalText(block.header)),
       BatchSet(calcTxStatusKey(blockHash), MarshalTxStatus(ts)),
       BatchSet(calcSeedKey(blockHash), MarshalSeed(seed)),
       BatchSet(blockStoreKey, JsonMarshal(StoreState(block.header.height, blockHash))) >>

\* Lines 160-185: the four encodings and the four writes staged into one batch.
SaveBlockBatch(block, ts, seed) ==
    LET blockHash == Hash(block) IN
    << BatchSet(calcBlockKey(blockHash), BlockMarshalText(block)),
       BatchSet(calcBlockHeaderKey(blockHash), HeaderMarshalText(block.header)),
       BatchSet(calcTxStatusKey(blockHash), MarshalTxStatus(ts)),
       BatchSet(calcSeedKey(blockHash), MarshalSeed(seed)) >>

\* batch.Write(): the substrate applies every staged write in one step.
BatchWrite(d, batch) == ApplyBatch(d, batch)

\* Once the commit is made, the history keeps the checkpoint the call found.
OldCheckpoint(d) == [k \in (DOMAIN d) \cap {blockStoreKey} |-> d[k]]

Returned(block, ts, seed) ==
    [saved EXCEPT ![Hash(block)] = [done |-> TRUE, block |-> block, ts |-> ts, seed |-> seed]]

\* A whole call of SaveBlock whose commit succeeds.
SaveBlock(block, ts, seed) ==
    /\ wpc = "idle"
    /\ db' = BatchWrite(db, SaveBlockBatch(block, ts, seed))
    /\ saved' = Returned(block, ts, seed)
    /\ UNCHANGED <<retry, cache, writerVars, readerVars>>

\* The same call step by step. Lines 160-185: the batch is built.
SaveBlockStage(block, ts, seed) ==
    /\ wpc = "idle"
    /\ wbatch' = SaveBlockBatch(block, ts, seed)
    /\ wcall' = [NoCall EXCEPT !.block = block, !.ts = ts, !.seed = seed]
    /\ wpc' = "sb_staged"
    /\ pre' = db
    /\ UNCHANGED <<retry, db, cache, saved, readerVars>>

\* Lines 160-178: one of the four encodings fails and SaveBlock returns the
\* wrapped error, before NewBatch is reached; the frame of the call is gone.
EncodeSteps == {"block", "header", "txstatus", "seed"}
SaveBlockEncodeFail(block, ts, seed, step) ==
    /\ wpc = "idle"
    /\ step \in EncodeSteps
    /\ wcall' = NoCall
    /\ wbatch' = <<>>
    /\ wpc' = "sb_err"
    /\ pre' = db
    /\ UNCHANGED <<retry, db, cache, saved, readerVars>>

\* Lines 186-187: batch.Write() and return nil.
SaveBlockWrite ==
    /\ wpc = "sb_staged"
    /\ db' = BatchWrite(db, wbatch)
    /\ saved' = Returned(wcall.block, wcall.ts, wcall.seed)
    /\ wpc' = "sb_done"
    /\ pre' = OldCheckpoint(db)
    /\ UNCHANGED <<retry, cache, wcall, wbatch, readerVars>>

\* batch.Write() has no result: a commit the substrate cannot make ends the
\* call by a panic raised inside Write, with nothing applied; the frame of the
\* call, its batch included, is unwound.
SaveBlockWritePanic ==
    /\ wpc = "sb_staged"
    /\ wpc' = "sb_panic"
    /\ wcall' = NoCall
    /\ wbatch' = <<>>
    /\ UNCHANGED <<retry, db, cache, pre, saved, readerVars>>

\* ----------------------------------------------------- SaveChainStatus
\* saveMainchain: the map is stored under the key of the new tip.
saveMainchain(m, hash) == <<BatchSet(calcMainchainKey(hash), MarshalMainchain(m))>>

\* saveUtxoView: a created output is written, a spent one is removed.
RECURSIVE saveUtxoViewFrom(_, _)
saveUtxoViewFrom(view, o) ==
    IF o > NumOutputs THEN <<>>
    ELSE (CASE view[o] = "new" -> <<BatchSet(calcUtxoKey(o), MarshalUtxo([spent |-> FALSE]))>>
            [] view[o] = "spent" -> <<BatchDelete(calcUtxoKey(o))>>
            [] OTHER -> <<>>) \o saveUtxoViewFrom(view, o + 1)
saveUtxoView(view) == saveUtxoViewFrom(view, 1)

\* SaveChainStatus leaving the checkpoint out of the batch.
SaveChainStatusBatch_NoCheckpoint(block, view, m) ==
    saveMainchain(m, Hash(block)) \o saveUtxoView(view)

\* Lines 192-208: the index, the view and the checkpoint staged into one batch.
SaveChainStatusBatch(block, view, m) ==
    LET hash == Hash(block)
        bytes == JsonMarshal(StoreState(block.header.height, hash))
    IN saveMainchain(m, hash) \o saveUtxoView(view) \o <<BatchSet(blockStoreKey, bytes)>>

HasPrefix(k, p) == Len(k) >= Len(p) /\ SubSeq(k, 1, Len(p)) = p

\* cleanMainchainDB deletes the index entries of every tip but the one given,
\* one key at a time.
StaleMainchainKeys(d, hash) ==
    {k \in DOMAIN d : HasPrefix(k, mainchainPrefix) /\ k # calcMainchainKey(hash)}
cleanMainchainDB(d, hash) ==
    [k \in (DOMAIN d) \ StaleMainchainKeys(d, hash) |-> d[k]]

\* A whole call of SaveChainStatus whose commit succeeds.
SaveChainStatus(block, view, m) ==
    /\ wpc = "idle"
    /\ db' = cleanMainchainDB(BatchWrite(db, SaveChainStatusBatch(block, view, m)),
                              Hash(block))
    /\ UNCHANGED <<retry, cache, saved, writerVars, readerVars>>

\* SaveChainStatus writing the checkpoint with db.Set instead of batch.Set.
SaveChainStatusStage_CheckpointDirect(block, view, m) ==
    /\ wpc = "idle"
    /\ wbatch' = SaveChainStatusBatch(block, view, m)
    /\ wcall' = [NoCall EXCEPT !.block = block, !.view = view, !.m = m]
    /\ wpc' = "scs_staged"
    /\ pre' = db
    /\ db' = DbSet(db, blockStoreKey,
                   JsonMarshal(StoreState(block.header.height, Hash(block))))
    /\ UNCHANGED <<retry, cache, saved, readerVars>>

\* SaveChainStatus calling cleanMainchainDB before the batch is written.
SaveChainStatusStage_PruneFirst(block, view, m) ==
    /\ wpc = "idle"
    /\ wbatch' = SaveChainStatusBatch(block, view, m)
    /\ wcall' = [NoCall EXCEPT !.block = block, !.view = view, !.m = m]
    /\ wpc' = "scs_staged"
    /\ pre' = db
    /\ db' = cleanMainchainDB(db, Hash(block))
    /\ UNCHANGED <<retry, cache, saved, readerVars>>

\* The same call step by step. Lines 192-208: the batch is built.
SaveChainStatusStage(block, view, m) ==
    /\ wpc = "idle"
    /\ wbatch' = SaveChainStatusBatch(block, view, m)
    /\ wcall' = [NoCall EXCEPT !.block = block, !.view = view, !.m = m]
    /\ wpc' = "scs_staged"
    /\ pre' = db
    /\ UNCHANGED <<retry, db, cache, saved, readerVars>>

\* What the batch holds when SaveChainStatus returns an error: nothing when
\* saveMainchain fails, the index and the entries of the view staged before the
\* failing one when saveUtxoView fails, index and view when json.Marshal fails.
StageSteps == {"mainchain", "utxo", "checkpoint"}
StagedBefore(block, view, m, step) ==
    LET index == saveMainchain(m, Hash(block))
        diff == saveUtxoView(view)
    IN CASE step = "mainchain" -> {<<>>}
         [] step = "utxo" -> {index \o SubSeq(diff, 1, n) : n \in 0..(Len(diff) - 1)}
         [] OTHER -> {index \o diff}

\* SaveChainStatus committing what it staged before it returns the error.
SaveChainStatusEncodeFail_WritesStaged(block, view, m, step) ==
    /\ wpc = "idle"
    /\ step \in StageSteps
    /\ \E staged \in StagedBefore(block, view, m, step) : db' = BatchWrite(db, staged)
    /\ wbatch' = <<>>
    /\ wcall' = NoCall
    /\ wpc' = "scs_err"
    /\ pre' = db
    /\ UNCHANGED <<retry, cache, saved, readerVars>>

\* Lines 195-206: staging the index, staging the view or encoding the
\* checkpoint fails and SaveChainStatus returns the error; the batch, with
\* whatever was staged into it, is dropped with the frame of the call.
SaveChainStatusEncodeFail(block, view, m, step) ==
    /\ wpc = "idle"
    /\ step \in StageSteps
    /\ StagedBefore(block, view, m, step) # {}
    /\ wbatch' = <<>>
    /\ wcall' = NoCall
    /\ wpc' = "scs_err"
    /\ pre' = db
    /\ UNCHANGED <<retry, db, cache, saved, readerVars>>

\* Line 209: batch.Write().
SaveChainStatusWrite ==
    /\ wpc = "scs_staged"
    /\ db' = BatchWrite(db, wbatch)
    /\ wpc' = "scs_clean"
    /\ pre' = OldCheckpoint(db)
    /\ UNCHANGED <<retry, cache, wcall, wbatch, saved, readerVars>>

SaveChainStatusWritePanic ==
    /\ wpc = "scs_staged"
    /\ wpc' = "scs_panic"
    /\ wcall' = NoCall
    /\ wbatch' = <<>>
    /\ UNCHANGED <<retry, db, cache, pre, saved, readerVars>>

\* The pruning scanning the whole substrate instead of the index prefix.
CleanMainchainStep_NoPrefix ==
    /\ wpc = "scs_clean"
    /\ \E k \in (DOMAIN db) \ {calcMainchainKey(Hash(wcall.block))} : db' = DbDelete(db, k)
    /\ UNCHANGED <<retry, cache, saved, writerVars, readerVars>>

\* The pruning deleting the index entry of the new tip as well.
CleanMainchainStep_NewTipToo ==
    /\ wpc = "scs_clean"
    /\ \E k \in {x \in DOMAIN db : HasPrefix(x, mainchainPrefix)} : db' = DbDelete(db, k)
    /\ UNCHANGED <<retry, cache, saved, writerVars, readerVars>>

\* Line 210: one delete of cleanMainchainDB, a write of its own.
CleanMainchainStep ==
    /\ wpc = "scs_clean"
    /\ \E k \in StaleMainchainKeys(db, Hash(wcall.block)) : db' = DbDelete(db, k)
    /\ UNCHANGED <<retry, cache, saved, writerVars, readerVars>>

\* Line 211: return nil, once nothing stale is left.
SaveChainStatusReturn ==
    /\ wpc = "scs_clean"
    /\ StaleMainchainKeys(db, Hash(wcall.block)) = {}
    /\ wpc' = "scs_done"
    /\ UNCHANGED <<retry, db, cache, wcall, wbatch, pre, saved, readerVars>>

\* SaveUtxoView writing the batch it staged.
SaveUtxoView_Commits(view) ==
    /\ wpc = "idle"
    /\ wbatch' = saveUtxoView(view)
    /\ wcall' = [NoCall EXCEPT !.view = view]
    /\ wpc' = "suv_done"
    /\ pre' = db
    /\ db' = BatchWrite(db, saveUtxoView(view))
    /\ UNCHANGED <<retry, cache, saved, readerVars>>

\* Lines 214-217: SaveUtxoView stages the view into a new batch and returns
\* what saveUtxoView returned; the batch is never written.
SaveUtxoView(view) ==
    /\ wpc = "idle"
    /\ wbatch' = saveUtxoView(view)
    /\ wcall' = [NoCall EXCEPT !.view = view]
    /\ wpc' = "suv_done"
    /\ pre' = db
    /\ UNCHANGED <<retry, db, cache, saved, readerVars>>

\* Whoever is to repeat the pruning of a call takes the tip of a call that has
\* returned nil.
NoteCall ==
    /\ wpc = "scs_done"
    /\ retry' = Hash(wcall.block)
    /\ UNCHANGED <<db, cache, saved, writerVars, readerVars>>

\* The repeated pruning keeping no index entry at all.
PruneAgain_KeepsNothing ==
    /\ wpc = "idle"
    /\ retry # NoHash
    /\ db' = [k \in {x \in DOMAIN db : ~HasPrefix(x, mainchainPrefix)} |-> db[k]]
    /\ UNCHANGED <<retry, cache, saved, writerVars, readerVars>>

\* The pruning of that call run again on its own: cleanMainchainDB with the
\* hash of that call's tip.
PruneAgain ==
    /\ wpc = "idle"
    /\ retry # NoHash
    /\ db' = cleanMainchainDB(db, retry)
    /\ UNCHANGED <<retry, cache, saved, writerVars, readerVars>>

\* The caller has the outcome of its call and may make the next one.
WriterNext ==
    /\ wpc \in {"sb_done", "sb_panic", "sb_err", "scs_done", "scs_panic", "scs_err", "suv_done"}
    /\ wpc' = "idle"
    /\ wcall' = NoCall
    /\ wbatch' = <<>>
    /\ pre' = EmptyDB
    /\ UNCHANGED <<retry, db, cache, saved, readerVars>>

\* The process dies and is started again on the same substrate (NewStore):
\* calls in progress, their batches and the cache are gone.
Crash ==
    /\ wpc' = "idle"
    /\ wcall' = NoCall
    /\ wbatch' = <<>>
    /\ pre' = EmptyDB
    /\ cache' = <<>>
    /\ rpc' = [r \in Readers |-> "idle"]
    /\ rcall' = [r \in Readers |-> NoLookup]
    /\ rres' = [r \in Readers |-> NoResult]
    /\ UNCHANGED <<retry, db, saved>>

\* ------------------------------------------------------ specifications
\* NewStore on an empty substrate.
Init ==
    /\ db = EmptyDB
    /\ cache = <<>>
    /\ wpc = "idle"
    /\ wcall = NoCall
    /\ wbatch = <<>>
    /\ pre = EmptyDB
    /\ saved = [h \in Hashes |-> NotSaved]
    /\ rpc = [r \in Readers |-> "idle"]
    /\ rcall = [r \in Readers |-> NoLookup]
    /\ rres = [r \in Readers |-> NoResult]
    /\ retry = NoHash

\* The write path step by step, with every crash point.
Next ==
    \/ \E b \in Blocks, a \in SaveArgs : SaveBlockStage(b, a.ts, a.seed)
    \/ SaveBlockWrite
    \/ SaveBlockWritePanic
    \/ \E b \in Blocks, view \in Views : \E m \in MainchainsFor(b) :
           SaveChainStatusStage(b, view, m)
    \/ SaveChainStatusWrite
    \/ SaveChainStatusWritePanic
    \/ CleanMainchainStep
    \/ SaveChainStatusReturn
    \/ WriterNext
    \/ Crash

Spec == Init /\ [][Next]_vars

\* Concurrent lookups beside whole SaveBlock calls.
NextCache ==
    \/ \E b \in Blocks, a \in SaveArgs : SaveBlock(b, a.ts, a.seed)
    \/ \E r \in Readers, h \in Hashes : GetBlockCall(r, h)
    \/ \E r \in Readers, h \in Hashes : BlockExistCall(r, h)
    \/ \E r \in Readers : CacheFill(r)
    \/ \E r \in Readers : LookupReturn(r)
    \/ Crash

SpecCache == Init /\ [][NextCache]_vars

\* One caller making whole calls one after the other.
NextSeq ==
    \/ \E b \in Blocks, a \in SaveArgs : SaveBlock(b, a.ts, a.seed)
    \/ \E b \in Blocks, view \in Views : \E m \in MainchainsFor(b) :
           SaveChainStatus(b, view, m)
    \/ \E h \in Hashes : GetBlockCall(1, h)
    \/ \E h \in Hashes : BlockExistCall(1, h)
    \/ CacheFill(1)
    \/ LookupReturn(1)
    \/ Crash

SpecSeq == Init /\ [][NextSeq]_vars

\* The substrate hands back undecodable bytes for one key (a damaged record).
Corrupt(k) ==
    /\ wpc = "idle"
    /\ k \in DOMAIN db
    /\ \A x \in DOMAIN db : db[x] # Garbage
    /\ db' = DbSet(db, k, Garbage)
    /\ UNCHANGED <<retry, cache, saved, writerVars, readerVars>>

\* Whole calls one after the other on a substrate that may be damaged.
NextCorrupt ==
    \/ NextSeq
    \/ \E k \in DOMAIN db : Corrupt(k)

SpecCorrupt == Init /\ [][NextCorrupt]_vars

\* The write path step by step, with the calls that end in an encoding error.
NextEnc ==
    \/ Next
    \/ \E b \in Blocks, a \in SaveArgs, step \in EncodeSteps :
           SaveBlockEncodeFail(b, a.ts, a.seed, step)
    \/ \E b \in Blocks, view \in Views, step \in StageSteps : \E m \in MainchainsFor(b) :
           SaveChainStatusEncodeFail(b, view, m, step)

SpecEnc == Init /\ [][NextEnc]_vars

\* One caller making whole write calls and direct reads one after the other.
NextReads ==
    \/ \E b \in Blocks, a \in SaveArgs : SaveBlock(b, a.ts, a.seed)
    \/ \E b \in Blocks, view \in Views : \E m \in MainchainsFor(b) :
           SaveChainStatus(b, view, m)
    \/ \E op \in ReadOps, h \in Hashes : DirectRead(1, op, h)
    \/ ReadReturn(1)
    \/ Crash

SpecReads == Init /\ [][NextReads]_vars

\* SaveChainStatus step by step, with the pruning of a returned call repeated
\* at any later time.
NextRetry ==
    \/ \E b \in Blocks, view \in Views : \E m \in MainchainsFor(b) :
           SaveChainStatusStage(b, view, m)
    \/ SaveChainStatusWrite
    \/ CleanMainchainStep
    \/ SaveChainStatusReturn
    \/ WriterNext
    \/ Crash
    \/ NoteCall
    \/ PruneAgain

SpecRetry == Init /\ [][NextRetry]_vars

\* One caller making whole write calls, SaveUtxoView and reads of the UTXO set
\* one after the other.
NextUtxo ==
    \/ \E b \in Blocks, a \in SaveArgs : SaveBlock(b, a.ts, a.seed)
    \/ \E b \in Blocks, view \in Views : \E m \in MainchainsFor(b) :
           SaveChainStatus(b, view, m)
    \/ \E view \in Views : SaveUtxoView(view)
    \/ WriterNext
    \/ \E o \in Outputs : GetUtxoCall(1, o)
    \/ ReadReturn(1)
    \/ Crash

SpecUtxo == Init /\ [][NextUtxo]_vars

\* The key functions on arbitrary hashes: two callers hold any two hashes, of
\* bytes that also occur in the prefixes, and build the keys of theirs.
HashBytes == {58, 66, 72}
AnyHashes == [1..HashLen -> HashBytes]

InitKeys ==
    /\ db = EmptyDB
    /\ cache = <<>>
    /\ wpc = "idle"
    /\ wcall = NoCall
    /\ wbatch = <<>>
    /\ pre = EmptyDB
    /\ saved = [h \in Hashes |-> NotSaved]
    /\ rpc = [r \in Readers |-> "idle"]
    /\ \E h1 \in AnyHashes, h2 \in AnyHashes :
           rcall = [r \in Readers |->
                       IF r = 1 THEN [hash |-> h1, afterSave |-> FALSE]
                       ELSE IF r = 2 THEN [hash |-> h2, afterSave |-> FALSE]
                       ELSE NoLookup]
    /\ rres = [r \in Readers |-> NoResult]
    /\ retry = NoHash

NextKeys == \E r \in {1, 2} : CalcKeys(r)

SpecKeys == InitKeys /\ [][NextKeys]_vars

\* ---------------------------------------------------------- properties
FamilyKeys(hash) ==
    {calcBlockKey(hash), calcBlockHeaderKey(hash), calcTxStatusKey(hash), calcSeedKey(hash)}

\* Every write of the batch is in the substrate as the batch left it.
BatchApplied(d, batch) ==
    \A i \in 1..Len(batch) :
        IF batch[i].op = "set" THEN DbGet(d, batch[i].key) = batch[i].val
        ELSE ~DbHas(d, batch[i].key)

Found(v) == [val |-> Ptr(v), err |-> NoErr]

\* C1: in every reachable state, the states between the steps of SaveBlock and
\* the states a crash leaves included, the four records of a hash (block,
\* header, transaction status, seed) are all present or all absent.
C1_FourRecordsTogether ==
    \A h \in Hashes :
        \/ FamilyKeys(h) \subseteq DOMAIN db
        \/ FamilyKeys(h) \cap DOMAIN db = {}

\* A SaveBlock has committed for one hash while another hash has no record.
C1_Witness ==
    /\ wpc = "sb_done"
    /\ FamilyKeys(Hash(wcall.block)) \subseteq DOMAIN db
    /\ \E h \in Hashes : FamilyKeys(h) \cap DOMAIN db = {}

\* C2: a chain-status advance is never seen partly applied: until
\* SaveChainStatus writes its batch the substrate is as the call found it, and
\* from then on every write of the batch (the index of the new tip, each UTXO
\* write of the view, the checkpoint) is in the substrate.
C2_AdvanceAllOrNothing ==
    /\ wpc = "scs_staged" => db = pre
    /\ wpc \in {"scs_clean", "scs_done"} => BatchApplied(db, wbatch)

\* An advance with an index write, a UTXO write and the checkpoint has
\* committed, over an earlier checkpoint, and stale index entries are left.
C2_Witness ==
    /\ wpc = "scs_clean"
    /\ Len(wbatch) >= 3
    /\ DbHas(pre, blockStoreKey)
    /\ StaleMainchainKeys(db, Hash(wcall.block)) # {}

\* C3: once SaveChainStatus(B, view, m) has returned nil, GetStoreStatus gives
\* {B.Height, hash(B)} and the mainchain map read back for the new tip gives
\* m[h] at every height h of m, whatever calls came before.
C3_StatusAfterAdvance ==
    wpc = "scs_done" =>
        LET b == wcall.block
            mc == GetMainchain(Hash(b))
        IN /\ ~GetStoreStatus.panic
           /\ GetStoreStatus.val = StoreState(b.header.height, Hash(b))
           /\ mc.err = NoErr
           /\ DOMAIN mc.val = DOMAIN wcall.m
           /\ \A h \in DOMAIN wcall.m : mc.val[h] = wcall.m[h]

\* An advance has returned that took the checkpoint to a lower height.
C3_Witness ==
    /\ wpc = "scs_done"
    /\ wcall.m # <<>>
    /\ loadBlockStoreStateJSON(pre).val.Height > wcall.block.header.height

\* What the index of the checkpoint's tip holds at the checkpoint's height.
IndexHoldsTip ==
    LET st == GetStoreStatus.val
        mc == GetMainchain(st.Hash)
    IN /\ mc.err = NoErr
       /\ st.Height \in DOMAIN mc.val
       /\ mc.val[st.Height] = st.Hash

\* C4: after any SaveChainStatus that returned nil, for any block and any map
\* passed, the index maps the checkpoint's height to the checkpoint's tip hash.
C4_IndexHoldsTipForAnyMap ==
    wpc = "scs_done" => IndexHoldsTip

\* C5: once SaveBlock(B, T, S) has returned nil, GetBlock(hash(B)) gives B,
\* GetBlockHeader gives B's header, GetTransactionStatus gives T and GetSeed
\* gives S, each with a nil error, in every later state: after saves of other
\* blocks, chain-status advances and cache evictions.
C5_RoundTrip ==
    \A h \in Hashes :
        saved[h].done =>
            /\ LookupNow(h) = Found(saved[h].block)
            /\ GetBlockHeader(h) = Found(saved[h].block.header)
            /\ GetTransactionStatus(h) = Found(saved[h].ts)
            /\ GetSeed(h) = Found(saved[h].seed)
            /\ \A r \in Readers :
                   (rpc[r] = "done" /\ rcall[r].hash = h /\ rcall[r].afterSave)
                       => rres[r] = Found(saved[h].block)

\* A saved block is out of the cache while another block is cached and a
\* chain-status advance has been committed.
C5_Witness ==
    \E h \in Hashes, g \in Hashes :
        /\ h # g
        /\ saved[h].done
        /\ saved[g].done
        /\ ~CacheHas(cache, h)
        /\ CacheHas(cache, g)
        /\ DbHas(db, blockStoreKey)

C10_CorruptionSurfaced ==
    /\ \A h \in Hashes :
           /\ (DbGet(db, calcBlockKey(h)) = Garbage /\ ~CacheHas(cache, h)) =>
                  /\ LookupNow(h).err \notin {NoErr, ErrNotFound}
                  /\ ~BlockExistResult(LookupNow(h))
           /\ DbGet(db, calcBlockHeaderKey(h)) = Garbage =>
                  GetBlockHeader(h).err \notin {NoErr, ErrNotFound}
           /\ DbGet(db, calcSeedKey(h)) = Garbage =>
                  GetSeed(h).err \notin {NoErr, ErrNotFound}
           /\ DbGet(db, calcTxStatusKey(h)) = Garbage =>
                  GetTransactionStatus(h).err \notin {NoErr, ErrNotFound}
    /\ DbGet(db, blockStoreKey) = Garbage => GetStoreStatus.panic

\* C11: a SaveBlock or SaveChainStatus that ends in an encoding error has
\* returned that error with the substrate exactly as the call found it: none of
\* the four records written, no index, UTXO or checkpoint write committed, no
\* stale index entry pruned, and no block recorded as saved.
C11_EncodingFailure ==
    wpc \in {"sb_err", "scs_err"} =>
        /\ db = pre
        /\ \A h \in Hashes : FamilyKeys(h) \subseteq DOMAIN db <=> saved[h].done

\* SaveChainStatus has returned an error in a store that holds a checkpoint,
\* an index entry that is not the checkpoint's tip's (left by a crash, and
\* which a pruning would remove), a UTXO entry and a saved block.
C11_Witness ==
    /\ wpc = "scs_err"
    /\ DbHas(db, blockStoreKey)
    /\ StaleMainchainKeys(db, GetStoreStatus.val.Hash) # {}
    /\ \E o \in Outputs : DbHas(db, calcUtxoKey(o))
    /\ \E h \in Hashes : saved[h].done

\* A record of the block family of some hash that is in the substrate.
FamilyRecords(d) == {k \in DOMAIN d : \E h \in Hashes : k \in FamilyKeys(h)}

\* C12: a record of the block family that has been written is never deleted
\* and never changes value in any later step: not by a SaveBlock of another or
\* of the same hash, whatever transaction status and seed it carries, not by a
\* SaveChainStatus and not by the pruning.
C12_AppendOnly ==
    [][\A k \in FamilyRecords(db) : DbHas(db', k) /\ db'[k] = db[k]]_vars

\* C13: pruning never touches block-family records: in every state, between
\* the steps of any SaveChainStatus and of its pruning too, GetBlock(H) and
\* GetBlockHeader(H) give the saved block and header of every hash H saved so
\* far, also when the index no longer holds the height of that block.
C13_PruningKeepsBlocks ==
    \A h \in Hashes :
        saved[h].done =>
            /\ fillFn(h) = Ptr(saved[h].block)
            /\ LookupNow(h).err = NoErr
            /\ GetBlockHeader(h).err = NoErr
            /\ Deref(GetBlockHeader(h).val) = saved[h].block.header

\* An advance has returned and pruned the index of the tip before it; the
\* block of that tip is saved and its height is not in the index any more.
C13_Witness ==
    /\ wpc = "scs_done"
    /\ DbHas(pre, blockStoreKey)
    /\ LET old == loadBlockStoreStateJSON(pre).val.Hash
           new == Hash(wcall.block)
       IN /\ old # new
          /\ saved[old].done
          /\ ~DbHas(db, calcMainchainKey(old))
          /\ saved[old].block.header.height \notin DOMAIN GetMainchain(new).val

NotFound == [val |-> Nil, err |-> ErrNotFound]

\* C14: for a hash H no SaveBlock was called for, GetBlockHeader(H), GetSeed(H)
\* and GetTransactionStatus(H) each return nil with the not-found error, in
\* every state and to every caller that made the read, and the read leaves the
\* substrate as it was.
C14_AbsentIsNotFound ==
    [][ /\ \A h \in Hashes : \A op \in ReadOps :
               ~saved[h].done => ReadResult(op, h) = NotFound
        /\ \A r \in Readers :
               (rpc[r] = "idle" /\ rpc'[r] = "read") =>
                   /\ db' = db
                   /\ ~saved[rcall'[r].hash].done => rres'[r] = NotFound ]_vars

\* A read of a hash never saved has returned not-found in a store that holds
\* the records of another hash and a checkpoint.
C14_Witness ==
    /\ rpc[1] = "read"
    /\ ~saved[rcall[1].hash].done
    /\ rres[1] = NotFound
    /\ DbHas(db, blockStoreKey)
    /\ \E g \in Hashes : saved[g].done

\* C15: while the checkpoint key is absent, which it is until a SaveChainStatus
\* commits, GetStoreStatus gives height 0 with no tip hash and does not panic;
\* once a SaveChainStatus has committed, the key is present, and no later step
\* removes it.
C15_CheckpointDefault ==
    [][ /\ ~DbHas(db, blockStoreKey) =>
               GetStoreStatus = [val |-> StoreState(0, NoHash), panic |-> FALSE]
        /\ (~DbHas(db, blockStoreKey) /\ DbHas(db', blockStoreKey)) =>
               (wpc = "scs_staged" /\ wpc' = "scs_clean")
        /\ wpc' \in {"scs_clean", "scs_done"} => DbHas(db', blockStoreKey)
        /\ DbHas(db, blockStoreKey) => DbHas(db', blockStoreKey) ]_vars

\* The first SaveChainStatus of a store has returned: the call found no
\* checkpoint and left one.
C15_Witness ==
    /\ wpc = "scs_done"
    /\ ~DbHas(pre, blockStoreKey)
    /\ DbHas(db, blockStoreKey)
    /\ GetStoreStatus.val = StoreState(wcall.block.header.height, Hash(wcall.block))

\* C16: within SaveChainStatus nothing is pruned before the batch is committed,
\* and the pruning keeps the entry of the new tip: in every state, so in every
\* state a crash can leave, GetStoreStatus is the checkpoint the call found or
\* the one it wrote, and the index entry of that checkpoint's tip is present.
C16_PruneAfterCommit ==
    /\ wpc = "scs_staged" => db = pre
    /\ wpc \in {"scs_staged", "scs_clean", "scs_done"} =>
           GetStoreStatus.val \in
               {loadBlockStoreStateJSON(pre).val,
                StoreState(wcall.block.header.height, Hash(wcall.block))}
    /\ wpc \in {"scs_clean", "scs_done"} =>
           GetMainchain(Hash(wcall.block)) = [val |-> wcall.m, err |-> NoErr]
    /\ DbHas(db, blockStoreKey) =>
           /\ ~GetStoreStatus.panic
           /\ DbHas(db, calcMainchainKey(GetStoreStatus.val.Hash))

\* The process died between the commit and the end of the pruning: the new
\* checkpoint is in place and an index entry of another tip is left.
C16_Witness ==
    /\ wpc = "idle"
    /\ DbHas(db, blockStoreKey)
    /\ StaleMainchainKeys(db, GetStoreStatus.val.Hash) # {}

UtxoRecords(d) == [k \in {x \in DOMAIN d : HasPrefix(x, utxoPrefix)} |-> d[k]]

C18_SaveBlockIdempotent ==
    [][(wpc = "sb_staged" /\ wpc' = "sb_done") =>
           LET h == Hash(wcall.block) IN
           /\ \A k \in ((DOMAIN db) \cup (DOMAIN db')) \ FamilyKeys(h) :
                  DbGet(db', k) = DbGet(db, k)
           /\ BatchWrite(db', SaveBlockBatch(wcall.block, wcall.ts, wcall.seed)) = db'
           /\ saved[h] = [done |-> TRUE, block |-> wcall.block,
                          ts |-> wcall.ts, seed |-> wcall.seed] => db' = db]_vars

\* A second SaveBlock with the arguments of one that returned is about to
\* commit, in a store that holds a checkpoint, an index entry and a UTXO entry.
C18_Witness ==
    /\ wpc = "sb_staged"
    /\ saved[Hash(wcall.block)] = [done |-> TRUE, block |-> wcall.block,
                                   ts |-> wcall.ts, seed |-> wcall.seed]
    /\ DbHas(db, blockStoreKey)
    /\ \E k \in DOMAIN db : HasPrefix(k, mainchainPrefix)
    /\ \E o \in Outputs : DbHas(db, calcUtxoKey(o))

\* C19: the persisted UTXO entries change only in the commit of a
\* SaveChainStatus, and then by the diff of its view; SaveBlock, the reads and
\* SaveUtxoView leave them as they are, and SaveUtxoView, whose batch is never
\* written, leaves every key of the substrate unchanged.
C19_UtxoOnlyByAdvance ==
    [][ /\ UtxoRecords(db') # UtxoRecords(db) =>
               \E b \in Blocks, view \in Views : \E m \in MainchainsFor(b) :
                   /\ SaveChainStatus(b, view, m)
                   /\ UtxoRecords(db') = UtxoRecords(BatchWrite(db, saveUtxoView(view)))
        /\ (wpc = "idle" /\ wpc' = "suv_done") => db' = db
        /\ (rpc[1] = "idle" /\ rpc'[1] = "read") => db' = db ]_vars

\* SaveUtxoView has returned with a staged batch that would have changed the
\* UTXO entries of the store, which hold what the last advance left.
C19_Witness ==
    /\ wpc = "suv_done"
    /\ wbatch # <<>>
    /\ db = pre
    /\ \E o \in Outputs : DbHas(db, calcUtxoKey(o))
    /\ UtxoRecords(BatchWrite(db, wbatch)) # UtxoRecords(db)

\* C20: for any two hashes h1 and h2, equal or not, keys of different kinds
\* differ, no key is the checkpoint key, two keys of one kind are equal only
\* for equal hashes, each key is its kind's prefix followed by the hash, and
\* no kind's prefix is a prefix of another kind's prefix.
C20_KeysCollisionFree ==
    /\ \A k1 \in Kinds, k2 \in Kinds :
           k1 # k2 => ~HasPrefix(PrefixOf(k1), PrefixOf(k2))
    /\ \A r \in {1, 2}, q \in {1, 2} :
           (rpc[r] = "keys" /\ rpc[q] = "keys") =>
               \A k1 \in Kinds, k2 \in Kinds :
                   /\ k1 # k2 => rres[r].val[k1] # rres[q].val[k2]
                   /\ rres[r].val[k1] # blockStoreKey
                   /\ rres[r].val[k1] = PrefixOf(k1) \o rcall[r].hash
                   /\ rres[r].val[k1] = rres[q].val[k1] <=> rcall[r].hash = rcall[q].hash

\* Both callers have their keys, for two different hashes of which one begins
\* with the bytes "H:", so that "B:" + h1 begins like a header key.
C20_Witness ==
    /\ rpc[1] = "keys"
    /\ rpc[2] = "keys"
    /\ rcall[1].hash # rcall[2].hash
    /\ SubSeq(rcall[1].hash, 1, 2) = <<72, 58>>
    /\ rres[1].val["B"] = <<66, 58, 72, 58>> \o SubSeq(rcall[1].hash, 3, HashLen)

====
